---- MODULE Spec2Model ----
(***************************************************************************)
(* Model of the oplog tailer of oplogtoredis (lib/oplog/tail.go): the      *)
(* Tail supervisor loop, its stop-watcher goroutine, tailOnce with its     *)
(* tailable cursor, getStartTime, parseRawOplogEntry, the change           *)
(* summarizer that turns a normalized entry into a publication, and the    *)
(* consumer of the out channel that advances the resume checkpoint in      *)
(* Redis.                                                                  *)
(***************************************************************************)
EXTENDS Integers, Sequences, FiniteSets, TLC

\* ------------------------------------------------------------------ bounds
\* last second of the modelled clock
MaxNow == 3
\* highest ordinal of an oplog timestamp within one second
MaxOrd == 1
\* number of entries written to the oplog
MaxOplog == 2
\* number of iterator errors and of cursor expiries injected
MaxFault == 1
\* capacity of the out channel handed to Tail
OutCap == 1
\* Tailer.MaxCatchUp, in seconds
MaxCatchUp == 2

\* ------------------------------------------------------- program constants
\* const requeryDuration = time.Second
requeryDuration == 1

\* ------------------------------------------------------------- timestamps
\* A bson.MongoTimestamp is seconds << 32 | ordinal.  TsUnit stands for 2^32:
\* the ordinals of the model are 0..MaxOrd, so seconds * TsUnit + ordinal
\* orders timestamps exactly as the 64-bit value does.
TsUnit == MaxOrd + 1

MongoTimestamp(secs, ord) == secs * TsUnit + ord

\* ts >> 32, the wall-clock second a timestamp encodes
TsSeconds(ts) == ts \div TsUnit

\* the zero value of a Go variable of type bson.MongoTimestamp
ZeroTimestamp == 0

Nil == [nil |-> TRUE]

\* ------------------------------------------------------------------ values
\* Strings are sequences of tokens, so that a prefix, a split at the first
\* "." and a concatenation are computed and not assumed: "foo.bar" is
\* <<"foo", ".", "bar">> and "$set" is <<"$", "set">>.
\* A value of type interface{} is tagged with its dynamic type.
NilV == [tag |-> "nil"]
StringV(s) == [tag |-> "string", s |-> s]
OidV(b) == [tag |-> "oid", b |-> b]
IntV(n) == [tag |-> "int", n |-> n]
MapV(m) == [tag |-> "map", m |-> m]

\* a map[string]interface{} is a function from its keys; m[k] of Go is nil
\* for a key the map does not hold
MapGet(m, k) == IF k \in DOMAIN m THEN m[k] ELSE NilV

HasPrefix(s, prefix) ==
    /\ Len(s) >= Len(prefix)
    /\ SubSeq(s, 1, Len(prefix)) = prefix

\* ------------------------------------------------------------ oplog entries
operationInsert == "i"
operationUpdate == "u"
operationRemove == "d"

\* type rawOplogEntry: ts, op, ns, o and o2 (h and v are read by nothing)
rawOplogEntry(ts, k) ==
    [Timestamp |-> ts, Operation |-> k.op, Namespace |-> k.ns, Doc |-> k.o,
     Update |-> [ID |-> k.o2ID]]

\* converts a rawOplogEntry to an oplogEntry, or Nil for a command
parseRawOplogEntry_noOpCheck(raw) ==
    [Operation |-> raw.Operation,
     Timestamp |-> raw.Timestamp,
     Namespace |-> raw.Namespace,
     Data      |-> raw.Doc,
     DocID     |-> IF raw.Operation = operationUpdate
                   THEN raw.Update.ID ELSE MapGet(raw.Doc, <<"_id">>)]

parseRawOplogEntry_noNamespace(raw) ==
    IF ~(raw.Operation = operationInsert \/ raw.Operation = operationUpdate
           \/ raw.Operation = operationRemove)
    THEN Nil
    ELSE [Operation |-> raw.Operation,
          Timestamp |-> raw.Timestamp,
          Namespace |-> <<>>,
          Data      |-> raw.Doc,
          DocID     |-> IF raw.Operation = operationUpdate
                        THEN raw.Update.ID ELSE MapGet(raw.Doc, <<"_id">>)]

parseRawOplogEntry_idFromDoc(raw) ==
    IF ~(raw.Operation = operationInsert \/ raw.Operation = operationUpdate
           \/ raw.Operation = operationRemove)
    THEN Nil
    ELSE [Operation |-> raw.Operation,
          Timestamp |-> raw.Timestamp,
          Namespace |-> raw.Namespace,
          Data      |-> raw.Doc,
          DocID     |-> MapGet(raw.Doc, <<"_id">>)]

parseRawOplogEntry(raw) ==
    IF ~(raw.Operation = operationInsert \/ raw.Operation = operationUpdate
           \/ raw.Operation = operationRemove)
    THEN Nil
    ELSE [Operation |-> raw.Operation,
          Timestamp |-> raw.Timestamp,
          Namespace |-> raw.Namespace,
          Data      |-> raw.Doc,
          DocID     |-> IF raw.Operation = operationUpdate
                        THEN raw.Update.ID ELSE MapGet(raw.Doc, <<"_id">>)]

\* ------------------------------------------------------ the change summarizer
\* database and collection: the namespace split at its first "."
RECURSIVE IndexOf(_, _, _)
IndexOf(s, tok, i) ==
    IF i > Len(s) THEN 0
    ELSE IF s[i] = tok THEN i
    ELSE IndexOf(s, tok, i + 1)

parseNamespace(ns) ==
    LET dot == IndexOf(ns, ".", 1) IN
    IF dot = 0
    THEN [Database |-> ns, Collection |-> <<>>]
    ELSE [Database |-> SubSeq(ns, 1, dot - 1),
          Collection |-> SubSeq(ns, dot + 1, Len(ns))]

eventNameForOperation_raw(op) == op

\* the event code of the change message
eventNameForOperation(op) ==
    IF op = operationInsert THEN "i"
    ELSE IF op = operationUpdate THEN "u"
    ELSE "r"

\* the keys of a map as a sequence, in the arbitrary order of an iteration
RECURSIVE SetToSeq(_)
SetToSeq(S) ==
    IF S = {} THEN <<>>
    ELSE LET x == CHOOSE y \in S : TRUE IN <<x>> \o SetToSeq(S \ {x})

mapKeys(m) == SetToSeq(DOMAIN m)

Elems(q) == {q[i] : i \in DOMAIN q}

RECURSIVE AppendAll(_, _)
AppendAll(acc, ks) ==
    IF ks = <<>> THEN acc
    ELSE AppendAll(Append(acc, Head(ks)), Tail(ks))

\* append to acc the elements of ks that it does not hold yet
RECURSIVE AppendNew(_, _)
AppendNew(acc, ks) ==
    IF ks = <<>> THEN acc
    ELSE AppendNew(IF Head(ks) \in Elems(acc) THEN acc ELSE Append(acc, Head(ks)),
                   Tail(ks))

\* fields of an operator update: the keys of the sub-mapping of every
\* $-prefixed key other than $v
RECURSIVE OperatorFields(_, _, _)
OperatorFields(data, keys, acc) ==
    IF keys = <<>> THEN acc
    ELSE LET k == Head(keys) IN
         OperatorFields(data, Tail(keys),
             IF HasPrefix(k, <<"$">>) /\ k # <<"$", "v">> /\ data[k].tag = "map"
             THEN AppendNew(acc, mapKeys(data[k].m))
             ELSE acc)

IsReplacement(data) == \A k \in DOMAIN data : ~HasPrefix(k, <<"$">>)

\* the field set f of the change message
ChangedFields(op) ==
    IF op.Operation = operationInsert THEN mapKeys(op.Data)
    ELSE IF op.Operation = operationUpdate
         THEN IF IsReplacement(op.Data)
              THEN mapKeys(op.Data)
              ELSE OperatorFields(op.Data, mapKeys(op.Data), <<>>)
         ELSE <<>>

\* lowercase hex of a sequence of bytes
HexDigits == <<"0", "1", "2", "3", "4", "5", "6", "7",
               "8", "9", "a", "b", "c", "d", "e", "f">>

RECURSIVE Hex_noPad(_)
Hex_noPad(b) ==
    IF b = <<>> THEN <<>>
    ELSE (IF Head(b) < 16
          THEN <<HexDigits[(Head(b) % 16) + 1]>>
          ELSE <<HexDigits[(Head(b) \div 16) + 1], HexDigits[(Head(b) % 16) + 1]>>)
           \o Hex_noPad(Tail(b))

RECURSIVE Hex(_)
Hex(b) ==
    IF b = <<>> THEN <<>>
    ELSE <<HexDigits[(Head(b) \div 16) + 1], HexDigits[(Head(b) % 16) + 1]>>
           \o Hex(Tail(b))

errUnsupportedID == "op.ID was not a string or ObjectID"

Publication(op, idForChannel, idForMessage) ==
    [CollectionChannel |-> op.Namespace,
     SpecificChannel |-> op.Namespace \o <<"::">> \o idForChannel,
     Msg |-> [e |-> eventNameForOperation(op.Operation),
              d |-> [_id |-> idForMessage],
              f |-> ChangedFields(op)],
     OplogTimestamp |-> op.Timestamp]

\* the Change Summarizer, (publication, error): nothing for a system
\* collection, an error for an id that is neither a string nor an ObjectID
processOplogEntry(op) ==
    IF HasPrefix(parseNamespace(op.Namespace).Collection, <<"system", ".">>)
    THEN [pub |-> Nil, err |-> "nil"]
    ELSE IF op.DocID.tag = "string"
    THEN [pub |-> Publication(op, op.DocID.s, op.DocID.s), err |-> "nil"]
    ELSE IF op.DocID.tag = "oid"
    THEN [pub |-> Publication(op, Hex(op.DocID.b),
                      [x \in {"$type", "$value"} |->
                          IF x = "$type" THEN <<"oid">> ELSE Hex(op.DocID.b)]),
          err |-> "nil"]
    ELSE [pub |-> Nil, err |-> errUnsupportedID]

\* ----------------------------------------------------- what the oplog holds
someid == StringV(<<"someid">>)
otherid == StringV(<<"otherid">>)
deadbeef == OidV(<<222, 173, 190, 239, 222, 173, 190, 239, 222, 173, 190, 239>>)
lowoid == OidV(<<0, 10, 1, 160, 9, 15, 255, 16, 0, 0, 171, 205>>)
field == StringV(<<"field">>)

nsFooBar == <<"foo", ".", "bar">>
nsSystemIndexes == <<"foo", ".", "system", ".", "indexes">>
nsCmd == <<"foo", ".", "$cmd">>

Doc1(k1, v1) == [k \in {k1} |-> v1]
Doc2(k1, v1, k2, v2) == [k \in {k1, k2} |-> IF k = k1 THEN v1 ELSE v2]
Doc3(k1, v1, k2, v2, k3, v3) ==
    [k \in {k1, k2, k3} |-> IF k = k1 THEN v1 ELSE IF k = k2 THEN v2 ELSE v3]

insertDoc(id) == Doc2(<<"_id">>, id, <<"some">>, field)

operatorDoc ==
    Doc3(<<"$", "v">>, StringV(<<"1.2.3">>),
         <<"$", "set">>, MapV(Doc2(<<"a">>, field, <<"b">>, field)),
         <<"$", "unset">>, MapV(Doc2(<<"c">>, field, <<"a">>, field)))

replaceDoc == Doc3(<<"_id">>, otherid, <<"some">>, field, <<"new">>, field)

Kind(op, ns, o, o2ID) == [op |-> op, ns |-> ns, o |-> o, o2ID |-> o2ID]

basicInsert == Kind("i", nsFooBar, insertDoc(someid), NilV)
dropCommand == Kind("c", nsCmd, Doc1(<<"drop">>, StringV(<<"bar">>)), NilV)

\* the entries written to the oplog while the tailer's loops are explored
EntryKinds == { basicInsert, dropCommand }

\* the entries written while the treatment of each entry is explored
AllEntryKinds ==
    { basicInsert,
      dropCommand,
      Kind("n", <<>>, Doc1(<<"msg">>, StringV(<<"periodic noop">>)), NilV),
      Kind("i", nsFooBar, insertDoc(deadbeef), NilV),
      Kind("i", nsFooBar, insertDoc(IntV(1234)), NilV),
      Kind("i", nsSystemIndexes, insertDoc(someid), NilV),
      Kind("i", nsSystemIndexes, insertDoc(IntV(1234)), NilV),
      Kind("c", nsSystemIndexes, Doc1(<<"create">>, StringV(<<"index">>)), NilV),
      Kind("u", nsFooBar, operatorDoc, someid),
      Kind("u", nsFooBar, replaceDoc, someid),
      Kind("u", nsFooBar, operatorDoc, IntV(1234)),
      Kind("u", nsSystemIndexes, operatorDoc, someid),
      Kind("d", nsFooBar, Doc1(<<"_id">>, someid), NilV),
      Kind("d", nsFooBar, insertDoc(lowoid), NilV),
      Kind("d", nsSystemIndexes, Doc1(<<"_id">>, someid), NilV) }

\* ------------------------------------------------------------------- state
VARIABLES
    now,            \* wall clock, seconds since epoch
    oplog,          \* local.oplog.rs in natural order
    faults,         \* [err, exp]: iterator errors and expiries injected so far
    checkpoint,     \* the last-processed timestamp stored in Redis, or NoCheckpoint
    out,            \* the out channel (buffer)
    pc,             \* position of the Tail goroutine
    startTime,      \* tailOnce: startTime
    lastTimestamp,  \* tailOnce: lastTimestamp
    iter,           \* tailOnce: iter, [from, pos, closed]
    entry,          \* tailOnce: entry of the inner loop, the raw entry normalized
    pending,        \* tailOnce: pub about to be sent on out
    retBy,          \* how the tailOnce that just ended returned: "stop", "error"
    gpc,            \* position of the stop-watcher goroutine
    wasStopped,     \* Tail: wasStopped
    reads,          \* getStartTime: the Redis and Mongo reads and time.Now()
    firstStart,     \* startTime of the first tailOnce, NoStart before it
    fellBack,       \* a tailOnce after the first did not resume from Redis
    sentInRun,      \* the running tailOnce has sent a publication on out
    lastSent,       \* timestamp of the last publication sent on out
    sentSet,        \* timestamps of all publications sent on out
    sentSinceStop,  \* publications sent since the stop token was raised (capped)
    openSessions,   \* copies of MongoClient made by tailOnce and not closed
    openCursors     \* oplog cursors opened by tailOnce that are live and not closed

envVars    == <<now, oplog, faults>>
pubVars    == <<out, checkpoint>>
tailVars   == <<pc, reads, startTime, lastTimestamp, iter, entry, pending, retBy>>
goVars     == <<gpc, wasStopped>>
startGhost == <<firstStart, fellBack>>
sendGhost  == <<sentInRun, lastSent, sentSet, sentSinceStop>>
mongoVars  == <<openSessions, openCursors>>
vars == <<envVars, pubVars, tailVars, goVars, startGhost, sendGhost, mongoVars>>

NoCheckpoint == -1
NoStart == ZeroTimestamp - 1
NoIter == [from |-> 0, pos |-> 0, closed |-> TRUE]

\* ------------------------------------------------------------- the cursor
\* oplogCollection.Find({ts: {$gt: from}}).LogReplay().Sort("$natural").Tail(..):
\* the cursor stands after the entries with ts <= from
OplogQuery(from) ==
    [from |-> from,
     pos |-> Cardinality({i \in DOMAIN oplog : oplog[i].Timestamp <= from}),
     closed |-> FALSE]

\* the $gt bound of the query re-issued after the cursor expired
ExpiryQueryFrom_skip(last, start) == last + TsUnit

ExpiryQueryFrom_restart(last, start) == start

ExpiryQueryFrom(last, start) == last

\* --------------------------------------------------------- getStartTime
\* redispub.LastProcessedTimestamp: (ts, tsTime, err); err is "Nil" when the
\* key does not exist, "fail" when Redis cannot be read
RedisReads ==
    { [err |-> "fail", ts |-> 0, tsTime |-> 0] } \cup
    ( IF checkpoint = NoCheckpoint
      THEN { [err |-> "Nil", ts |-> 0, tsTime |-> 0] }
      ELSE { [err |-> "nil", ts |-> checkpoint, tsTime |-> TsSeconds(checkpoint)] } )

\* Find(nil).Sort("-$natural").One(&entry): (entry.Timestamp, mongoErr)
MongoReads ==
    { [err |-> "fail", ts |-> 0] } \cup
    ( IF oplog = <<>>
      THEN { [err |-> "notfound", ts |-> 0] }
      ELSE { [err |-> "nil", ts |-> oplog[Len(oplog)].Timestamp] } )

getStartTime_noStaleCheck(r, m, t) ==
    IF r.err = "nil"
    THEN [ts |-> r.ts, src |-> "redis"]
    ELSE IF m.err = "nil"
         THEN [ts |-> m.ts, src |-> "mongo"]
         ELSE [ts |-> MongoTimestamp(t, 0), src |-> "now"]

\* r: the Redis read, m: the Mongo read, t: time.Now().Unix()
getStartTime(r, m, t) ==
    IF r.err = "nil" /\ r.tsTime > t - MaxCatchUp
    THEN [ts |-> r.ts, src |-> "redis"]
    ELSE IF m.err = "nil"
         THEN [ts |-> m.ts, src |-> "mongo"]
         ELSE [ts |-> MongoTimestamp(t, 0), src |-> "now"]

\* ------------------------------------------------------------------- Init
Init ==
    /\ now = 1
    /\ oplog = <<>>
    /\ faults = [err |-> 0, exp |-> 0]
    /\ checkpoint = NoCheckpoint
    /\ out = <<>>
    /\ pc = "start"
    /\ reads = Nil
    /\ startTime = ZeroTimestamp
    /\ lastTimestamp = ZeroTimestamp
    /\ iter = NoIter
    /\ entry = Nil
    /\ pending = Nil
    /\ retBy = "none"
    /\ gpc = "wait"
    /\ wasStopped = FALSE
    /\ firstStart = NoStart
    /\ fellBack = FALSE
    /\ sentInRun = FALSE
    /\ lastSent = ZeroTimestamp
    /\ sentSet = {}
    /\ sentSinceStop = 0
    /\ openSessions = 0
    /\ openCursors = 0

\* ------------------------------------------------------------ environment
\* The model covers one run of Tail: the oplog is followed until Tail has
\* returned.  The clock advances where the tailer waits: a poll of the cursor
\* that times out and the sleep before a reconnect each take requeryDuration.
Running == pc # "returned"

\* the timestamp the primary gives the next entry
NextTs ==
    IF oplog # <<>> /\ TsSeconds(oplog[Len(oplog)].Timestamp) = now
    THEN oplog[Len(oplog)].Timestamp + 1
    ELSE MongoTimestamp(now, 1)

OplogWrite ==
    /\ Running
    /\ Len(oplog) < MaxOplog
    /\ NextTs <= MongoTimestamp(now, MaxOrd)
    /\ \E k \in EntryKinds : oplog' = Append(oplog, rawOplogEntry(NextTs, k))
    /\ UNCHANGED <<mongoVars, now, faults, pubVars, tailVars, goVars, startGhost, sendGhost>>

\* the primary commits an entry of any of the kinds the tailer classifies
OplogWriteAny ==
    /\ Running
    /\ Len(oplog) < MaxOplog
    /\ NextTs <= MongoTimestamp(now, MaxOrd)
    /\ \E k \in AllEntryKinds : oplog' = Append(oplog, rawOplogEntry(NextTs, k))
    /\ UNCHANGED <<mongoVars, now, faults, pubVars, tailVars, goVars, startGhost, sendGhost>>

\* ---------------------------------------------------- the consumer of out
\* Receive a publication from out, publish it on both channels, then try to
\* store its timestamp as the checkpoint (best effort: a failed write is
\* logged and swallowed)
Publish ==
    /\ out # <<>>
    /\ out' = Tail(out)
    /\ \E ok \in BOOLEAN :
         checkpoint' = IF ok THEN Head(out).OplogTimestamp ELSE checkpoint
    /\ UNCHANGED <<mongoVars, envVars, tailVars, goVars, startGhost, sendGhost>>

\* ------------------------------------------------- the stop-watcher goroutine
\* <-stop
StopRecv ==
    /\ gpc = "wait"
    /\ gpc' = "set"
    /\ UNCHANGED <<mongoVars, wasStopped, envVars, pubVars, tailVars, startGhost, sendGhost>>

\* wasStopped = true; then the goroutine blocks in childStopC <- true
StopSet ==
    /\ gpc = "set"
    /\ wasStopped' = TRUE
    /\ gpc' = "send"
    /\ UNCHANGED <<mongoVars, envVars, pubVars, tailVars, startGhost, sendGhost>>

\* ------------------------------------------------------------------- Tail
\* tailOnce: session := tailer.MongoClient.Copy(); then getStartTime: the read
\* of Redis, the read of the end of the oplog and of the clock
GetStartTimeReads ==
    /\ pc = "start"
    /\ \E r \in RedisReads, m \in MongoReads :
         reads' = [redis |-> r, mongo |-> m, now |-> now]
    /\ pc' = "query"
    /\ UNCHANGED <<startTime, lastTimestamp, iter, entry, pending, retBy,
                   envVars, pubVars, goVars, startGhost, sendGhost>>
    /\ openSessions' = openSessions + 1
    /\ UNCHANGED openCursors

\* tailOnce: startTime := getStartTime(..), the first query, lastTimestamp
TailOnceQuery ==
    /\ pc = "query"
    /\ LET st == getStartTime(reads.redis, reads.mongo, reads.now) IN
         /\ startTime' = st.ts
         /\ iter' = OplogQuery(st.ts)
         /\ firstStart' = IF firstStart = NoStart THEN st.ts ELSE firstStart
         /\ fellBack' = (fellBack \/ (firstStart # NoStart /\ st.src # "redis"))
    /\ lastTimestamp' = ZeroTimestamp
    /\ reads' = Nil
    /\ sentInRun' = FALSE
    /\ pc' = "select"
    /\ UNCHANGED <<entry, pending, retBy, envVars, pubVars, goVars,
                   lastSent, sentSet, sentSinceStop>>
    /\ openCursors' = openCursors + 1
    /\ UNCHANGED openSessions

\* select { case <-stop: return; default: }
\* On return the locals of tailOnce go out of scope; what stays behind of the
\* iterator is whether it was closed.  The return on stop closes neither the
\* iterator nor the session.
Select ==
    /\ pc = "select"
    /\ IF gpc = "send"
       THEN /\ gpc' = "done"
            /\ pc' = "check"
            /\ retBy' = "stop"
            /\ startTime' = ZeroTimestamp
            /\ lastTimestamp' = ZeroTimestamp
            /\ iter' = [NoIter EXCEPT !.closed = iter.closed]
            /\ sentInRun' = FALSE
       ELSE /\ pc' = "next"
            /\ UNCHANGED <<gpc, retBy, startTime, lastTimestamp, iter, sentInRun>>
    /\ UNCHANGED <<mongoVars, wasStopped, reads, entry, pending, envVars, pubVars, startGhost,
                   lastSent, sentSet, sentSinceStop>>

\* if entry == nil { continue } ... if pub == nil { continue }; out <- pub
AfterEntry_abort(pub) == IF pub = Nil THEN "check" ELSE "send"

AfterEntry(pub) == IF pub = Nil THEN "next" ELSE "send"

\* iter.Next yields an entry: the body of the inner loop up to out <- pub
NextEntry ==
    /\ pc = "next"
    /\ iter.pos < Len(oplog)
    /\ LET raw == oplog[iter.pos + 1]
           e == parseRawOplogEntry(raw)
           pub == IF e = Nil THEN Nil ELSE processOplogEntry(e).pub
       IN /\ lastTimestamp' = raw.Timestamp
          /\ iter' = [iter EXCEPT !.pos = @ + 1]
          /\ entry' = e
          /\ pending' = pub
          /\ pc' = AfterEntry(pub)
    /\ UNCHANGED <<mongoVars, reads, startTime, retBy, envVars, pubVars, goVars,
                   startGhost, sendGhost>>

\* the stop token is raised: the goroutine is sending on childStopC
StopRaised == gpc = "send"

\* out <- pub
Send ==
    /\ pc = "send"
    /\ Len(out) < OutCap
    /\ out' = Append(out, pending)
    /\ sentInRun' = TRUE
    /\ lastSent' = pending.OplogTimestamp
    /\ sentSet' = sentSet \cup {pending.OplogTimestamp}
    /\ sentSinceStop' = IF StopRaised /\ sentSinceStop < 2
                        THEN sentSinceStop + 1 ELSE sentSinceStop
    /\ pending' = Nil
    /\ pc' = "next"
    /\ UNCHANGED <<mongoVars, checkpoint, reads, startTime, lastTimestamp, iter, entry, retBy,
                   envVars, goVars, startGhost>>

\* iter.Next returns false with iter.Err() != nil: close the iterator, return
NextError ==
    /\ pc = "next"
    /\ faults.err < MaxFault
    /\ faults' = [faults EXCEPT !.err = @ + 1]
    /\ iter' = [NoIter EXCEPT !.closed = TRUE]
    /\ startTime' = ZeroTimestamp
    /\ lastTimestamp' = ZeroTimestamp
    /\ sentInRun' = FALSE
    /\ entry' = Nil
    /\ retBy' = "error"
    /\ pc' = "check"
    /\ UNCHANGED <<now, oplog, reads, pending, pubVars, goVars, startGhost,
                   lastSent, sentSet, sentSinceStop>>
    /\ openCursors' = openCursors - 1
    /\ UNCHANGED openSessions

NextTimeout_requery ==
    /\ pc = "next"
    /\ iter.pos = Len(oplog)
    /\ now + requeryDuration <= MaxNow
    /\ now' = now + requeryDuration
    /\ iter' = OplogQuery(lastTimestamp)
    /\ entry' = Nil
    /\ pc' = "select"
    /\ UNCHANGED <<mongoVars, oplog, faults, reads, startTime, lastTimestamp, pending,
                   retBy, pubVars, goVars, startGhost, sendGhost>>

\* iter.Next returns false with iter.Timeout(): no entry within the poll window
NextTimeout ==
    /\ pc = "next"
    /\ iter.pos = Len(oplog)
    /\ now + requeryDuration <= MaxNow
    /\ now' = now + requeryDuration
    /\ entry' = Nil
    /\ pc' = "select"
    /\ UNCHANGED <<mongoVars, oplog, faults, reads, startTime, lastTimestamp, iter, pending,
                   retBy, pubVars, goVars, startGhost, sendGhost>>

\* iter.Next returns false with no error and no timeout: the cursor expired.
\* The server has discarded the expired cursor, so the query that replaces it
\* leaves the number of live cursors as it was.
NextExpired ==
    /\ pc = "next"
    /\ faults.exp < MaxFault
    /\ faults' = [faults EXCEPT !.exp = @ + 1]
    /\ iter' = OplogQuery(ExpiryQueryFrom(lastTimestamp, startTime))
    /\ entry' = Nil
    /\ pc' = "select"
    /\ UNCHANGED <<mongoVars, now, oplog, reads, startTime, lastTimestamp, pending, retBy,
                   pubVars, goVars, startGhost, sendGhost>>

\* what the Tail loop's read of wasStopped can see: the goroutine's write is
\* ordered before the read only through the receive on childStopC
ReadWasStopped ==
    IF retBy # "stop" /\ gpc = "send" THEN {TRUE, FALSE} ELSE {wasStopped}

TailCheck_returnOnError ==
    /\ pc = "check"
    /\ pc' = "returned"
    /\ UNCHANGED <<mongoVars, reads, startTime, lastTimestamp, iter, entry, pending, retBy,
                   envVars, pubVars, goVars, startGhost, sendGhost>>

\* if wasStopped { return }
TailCheck ==
    /\ pc = "check"
    /\ \E w \in ReadWasStopped :
         /\ pc' = IF w THEN "returned" ELSE "sleep"
         /\ retBy' = IF w THEN retBy ELSE "none"
    /\ UNCHANGED <<mongoVars, reads, startTime, lastTimestamp, iter, entry, pending,
                   envVars, pubVars, goVars, startGhost, sendGhost>>

\* time.Sleep(requeryDuration)
Sleep ==
    /\ pc = "sleep"
    /\ now + requeryDuration <= MaxNow
    /\ now' = now + requeryDuration
    /\ pc' = "start"
    /\ UNCHANGED <<mongoVars, oplog, faults, reads, startTime, lastTimestamp, iter, entry, pending,
                   retBy, pubVars, goVars, startGhost, sendGhost>>

\* The capped oplog rolls over under a steady stream of writes: the oldest
\* entry, which the cursor has already passed, is dropped and a new one is
\* written.  Timestamps beyond the last ordinal of the current second are
\* collapsed onto it, which keeps the state space finite; the reader's loop
\* takes entries by cursor position and compares no timestamps.
RollTs ==
    IF NextTs <= MongoTimestamp(now, MaxOrd) THEN NextTs ELSE MongoTimestamp(now, MaxOrd)

OplogRoll ==
    /\ Running
    /\ Len(oplog) = MaxOplog
    /\ pc \in {"next", "send"}
    /\ iter.pos >= 1
    /\ \E k \in EntryKinds : oplog' = Append(Tail(oplog), rawOplogEntry(RollTs, k))
    /\ iter' = [iter EXCEPT !.pos = @ - 1]
    /\ UNCHANGED <<mongoVars, now, faults, pc, reads, startTime, lastTimestamp, entry, pending, retBy,
                   pubVars, goVars, startGhost, sendGhost>>

\* ---------------------------------------------------------- specification
Next ==
    \/ OplogWrite
    \/ Publish
    \/ StopRecv
    \/ StopSet
    \/ GetStartTimeReads
    \/ TailOnceQuery
    \/ Select
    \/ NextEntry
    \/ Send
    \/ NextError
    \/ NextTimeout
    \/ NextExpired
    \/ TailCheck
    \/ Sleep

Spec == Init /\ [][Next]_vars

\* The steps of the Tail goroutine, of the stop-watcher and of the consumer
TailStep ==
    \/ GetStartTimeReads \/ TailOnceQuery \/ Select \/ NextEntry \/ Send
    \/ NextError \/ NextTimeout \/ NextExpired \/ TailCheck \/ Sleep

LiveNext == Next \/ OplogRoll

\* Every goroutine that can run does run: a cursor poll returns, the consumer
\* keeps receiving from out, the stop-watcher is scheduled.  The oplog writer
\* and the stop signal are under no obligation.
LiveSpec ==
    /\ Init
    /\ [][LiveNext]_vars
    /\ WF_vars(TailStep)
    /\ WF_vars(Publish)
    /\ WF_vars(StopSet)

\* One tailOnce reading an oplog that holds entries of every kind, across
\* the timeouts of its cursor
ReadNext ==
    \/ OplogWriteAny
    \/ Publish
    \/ GetStartTimeReads
    \/ TailOnceQuery
    \/ Select
    \/ NextEntry
    \/ Send
    \/ NextTimeout

ReadSpec == Init /\ [][ReadNext]_vars

\* ------------------------------------------------------------------ claims
\* an insert, update or delete on a non-system collection whose id is a
\* string or an ObjectID
Eligible(raw) ==
    /\ raw.Operation \in {"i", "u", "d"}
    /\ ~HasPrefix(parseNamespace(raw.Namespace).Collection, <<"system", ".">>)
    /\ (IF raw.Operation = "u" THEN raw.Update.ID ELSE MapGet(raw.Doc, <<"_id">>)).tag
          \in {"string", "oid"}

\* the cursor of the last tailOnce has moved past entry i and its
\* publication, if any, is no longer in hand
Passed(i) == i <= iter.pos /\ ~(i = iter.pos /\ pc = "send")

NoSkip ==
    \A i \in DOMAIN oplog :
        (/\ Eligible(oplog[i])
         /\ firstStart # NoStart
         /\ oplog[i].Timestamp > firstStart
         /\ Passed(i)) => oplog[i].Timestamp \in sentSet

C3_RequeryFromLastSeenOrStart ==
    [][faults'.exp > faults.exp =>
         iter'.from = IF lastTimestamp # ZeroTimestamp THEN lastTimestamp ELSE startTime]_vars

\* C4: every entry one tailOnce reads has ts above the start timestamp it
\* computed, and entries are read in increasing ts.
C4_ReadsAboveStartInOrder ==
    [][(lastTimestamp' # lastTimestamp /\ lastTimestamp' # ZeroTimestamp) =>
         (lastTimestamp' > startTime /\ lastTimestamp' > lastTimestamp)]_vars

\* C5: the checkpoint stored in Redis never decreases.
C5_CheckpointMonotonic == [][checkpoint' >= checkpoint]_vars

\* C6: Tail returns only after a message on stop; with no stop message a
\* tailOnce that ended is followed by a sleep of requeryDuration and a new
\* tailOnce that reads the checkpoint again.
C6_ReturnsOnlyOnStop ==
    [][/\ (pc' = "returned" => gpc # "wait")
       /\ (pc = "check" /\ gpc = "wait" /\ pc' # pc => pc' = "sleep")
       /\ (pc = "sleep" /\ pc' # pc =>
              pc' = "start" /\ now' = now + requeryDuration)
       /\ (pc = "start" /\ pc' # pc =>
              pc' = "query" /\ reads'.redis \in RedisReads)]_vars

\* a tailOnce ended by an iterator error, no stop sent, a new tailOnce runs
C6_Witness ==
    /\ gpc = "wait"
    /\ faults.err >= 1
    /\ pc = "select"

\* the clock of the model has run out where the tailer waits
Horizon == pc \in {"sleep", "next"} /\ now + requeryDuration > MaxNow

\* C7: once the stop message has been sent, Tail eventually returns.
C7_StopLeadsToReturn == (gpc # "wait") ~> (pc = "returned" \/ Horizon)

\* C8: once the stop token is raised, tailOnce sends at most the publication
\* of the current entry on out before it returns.
C8_AtMostOneAfterStop == sentSinceStop <= 1

\* C9: when tailOnce has returned on the stop message, its iterator is closed.
C9_ClosedOnStop == (retBy = "stop" /\ pc \in {"check", "returned"}) => iter.closed

\* C10: the start timestamp is the checkpoint when it was read and is newer
\* than now - MaxCatchUp, else the last oplog timestamp when that was read,
\* else now << 32.
C10_Expected(rd) ==
    IF rd.redis.err = "nil" /\ TsSeconds(rd.redis.ts) > rd.now - MaxCatchUp
    THEN rd.redis.ts
    ELSE IF rd.mongo.err = "nil" THEN rd.mongo.ts
    ELSE MongoTimestamp(rd.now, 0)

C10_StartTime ==
    [][pc = "query" /\ pc' # pc => startTime' = C10_Expected(reads)]_vars

\* a tailOnce that found a stale checkpoint has started from the oplog's end
C10_Witness ==
    /\ pc = "select"
    /\ lastTimestamp = ZeroTimestamp
    /\ out = <<>>
    /\ checkpoint # NoCheckpoint
    /\ TsSeconds(checkpoint) <= now - MaxCatchUp
    /\ startTime = oplog[Len(oplog)].Timestamp
    /\ startTime # checkpoint

\* the id the claims speak of: o2._id of an update, o._id otherwise
RawID(raw) ==
    IF raw.Operation = "u" THEN raw.Update.ID ELSE MapGet(raw.Doc, <<"_id">>)

IsIUD(raw) == raw.Operation \in {"i", "u", "d"}

IsSystemNs(ns) == \E d \in 1..Len(ns) :
    /\ ns[d] = "."
    /\ \A j \in 1..(d - 1) : ns[j] # "."
    /\ Len(ns) >= d + 2
    /\ ns[d + 1] = "system"
    /\ ns[d + 2] = "."

UnsupportedID(raw) ==
    /\ IsIUD(raw)
    /\ ~IsSystemNs(raw.Namespace)
    /\ RawID(raw).tag \notin {"string", "oid"}

\* the step of tailOnce that takes the next entry from the cursor
ReadsEntry == pc = "next" /\ iter'.pos = iter.pos + 1 /\ oplog' = oplog

\* the tailOnce that took the entry goes on with the same cursor
StreamContinues ==
    /\ pc' = "next"
    /\ iter' = [iter EXCEPT !.pos = @ + 1]
    /\ startTime' = startTime
    /\ retBy' = retBy

C13_NonDataOpDiscarded ==
    [][(ReadsEntry /\ ~IsIUD(oplog[iter.pos + 1])) =>
         /\ entry' = Nil
         /\ pending' = Nil
         /\ out' = out
         /\ StreamContinues]_vars

\* a command or a no-op was read and not sent, and the entry after it was sent
C13_Witness ==
    /\ Len(oplog) >= 2
    /\ oplog[1].Operation \in {"c", "n"}
    /\ iter.from < oplog[1].Timestamp
    /\ oplog[1].Timestamp \notin sentSet
    /\ oplog[2].Timestamp \in sentSet
    /\ sentInRun

\* the raw entry the cursor yields next
RawRead == oplog[iter.pos + 1]

AllDollar(doc) == \A k \in DOMAIN doc : k[1] = "$"

\* C14: for an update whose payload's top-level keys are all $-prefixed, f
\* holds exactly the top-level keys of payload[k] for every top-level key k
\* other than $v, each once.
C14_OperatorUpdateFields ==
    [][(/\ ReadsEntry
        /\ RawRead.Operation = "u"
        /\ AllDollar(RawRead.Doc)
        /\ pending' # Nil) =>
         LET f == pending'.Msg.f IN
         /\ Elems(f) = UNION { DOMAIN RawRead.Doc[k].m :
                                 k \in DOMAIN RawRead.Doc \ {<<"$", "v">>} }
         /\ Cardinality(Elems(f)) = Len(f)]_vars

\* the publication of an update with $v, $set {a, b} and $unset {c, a} is
\* about to be sent
C14_Witness ==
    /\ pc = "send"
    /\ entry.Operation = "u"
    /\ DOMAIN entry.Data = {<<"$", "v">>, <<"$", "set">>, <<"$", "unset">>}
    /\ <<"a">> \in DOMAIN entry.Data[<<"$", "set">>].m
    /\ <<"a">> \in DOMAIN entry.Data[<<"$", "unset">>].m
    /\ Elems(pending.Msg.f) = {<<"a">>, <<"b">>, <<"c">>}

\* C15: the event code is i for an insert, u for an update and r for a
\* delete, and f is empty for every delete.
C15_EventCodeAndDeleteFields ==
    [][(ReadsEntry /\ pending' # Nil) =>
         /\ (RawRead.Operation = "i" => pending'.Msg.e = "i")
         /\ (RawRead.Operation = "u" => pending'.Msg.e = "u")
         /\ (RawRead.Operation = "d" => pending'.Msg.e = "r" /\ Len(pending'.Msg.f) = 0)
         /\ pending'.Msg.e \in {"i", "u", "r"}]_vars

\* the publication of a delete whose payload holds more than _id is about to
\* be sent
C15_Witness ==
    /\ pc = "send"
    /\ entry.Operation = "d"
    /\ Cardinality(DOMAIN entry.Data) >= 2
    /\ pending.Msg.e = "r"

\* the value of a lowercase hex digit, -1 for any other token
HexValue(c) ==
    IF \E v \in 0..15 : HexDigits[v + 1] = c
    THEN CHOOSE v \in 0..15 : HexDigits[v + 1] = c
    ELSE -1

\* s is the id as it stands in a channel name
IsIDString(id, s) ==
    IF id.tag = "string" THEN s = id.s
    ELSE /\ id.tag = "oid"
         /\ Len(s) = 2 * Len(id.b)
         /\ \A i \in DOMAIN id.b :
              /\ HexValue(s[2 * i - 1]) >= 0
              /\ HexValue(s[2 * i]) >= 0
              /\ 16 * HexValue(s[2 * i - 1]) + HexValue(s[2 * i]) = id.b[i]

\* C16: collectionChannel is the entry's namespace and specificChannel is
\* collectionChannel, then "::", then the id as a string: the string itself,
\* or the lowercase hex of an ObjectID.
C16_Channels ==
    [][(ReadsEntry /\ pending' # Nil) =>
         LET cc == pending'.CollectionChannel
             sc == pending'.SpecificChannel
         IN /\ cc = RawRead.Namespace
            /\ Len(sc) > Len(cc)
            /\ SubSeq(sc, 1, Len(cc)) = cc
            /\ sc[Len(cc) + 1] = "::"
            /\ IsIDString(RawID(RawRead), SubSeq(sc, Len(cc) + 2, Len(sc)))]_vars

\* the publication of an entry whose ObjectID has bytes below 16 is about to
\* be sent
C16_Witness ==
    /\ pc = "send"
    /\ entry.DocID.tag = "oid"
    /\ \E i \in DOMAIN entry.DocID.b : entry.DocID.b[i] < 16
    /\ Len(pending.SpecificChannel) = Len(entry.Namespace) + 1 + 24

\* a poll of the cursor that ends after requeryDuration with no entry
TimesOut == pc = "next" /\ now' # now

\* C17: on a cursor timeout tailOnce keeps its cursor and lastTimestamp, does
\* not return, and goes to the check of the stop channel; from there it either
\* polls the same cursor again or returns on the stop message.
C17_TimeoutKeepsCursor ==
    [][/\ TimesOut =>
            /\ iter' = iter
            /\ lastTimestamp' = lastTimestamp
            /\ startTime' = startTime
            /\ retBy' = retBy
            /\ faults' = faults
            /\ pc' = "select"
       /\ (pc = "select" /\ pc' # pc) =>
            \/ (pc' = "next" /\ iter' = iter /\ lastTimestamp' = lastTimestamp)
            \/ (pc' = "check" /\ retBy' = "stop" /\ gpc = "send")]_vars

\* the first tailOnce polls its cursor again after a timeout that followed
\* the read of an entry
C17_Witness ==
    /\ pc = "next"
    /\ faults.err = 0
    /\ faults.exp = 0
    /\ lastTimestamp # ZeroTimestamp
    /\ TsSeconds(lastTimestamp) < now
    /\ iter.from = startTime
    /\ ~iter.closed

\* C19: the document id of a normalized entry is o2._id for an update and
\* o._id for an insert or a delete; its data is the payload o and its
\* timestamp the raw ts.
C19_DocIDSource ==
    [][(ReadsEntry /\ entry' # Nil) =>
         /\ (RawRead.Operation = "u" => entry'.DocID = RawRead.Update.ID)
         /\ (RawRead.Operation \in {"i", "d"} =>
               entry'.DocID = IF <<"_id">> \in DOMAIN RawRead.Doc
                              THEN RawRead.Doc[<<"_id">>] ELSE NilV)
         /\ entry'.Data = RawRead.Doc
         /\ entry'.Timestamp = RawRead.Timestamp
         /\ entry'.Operation \in {"i", "u", "d"}]_vars

\* an update whose payload holds an _id other than o2._id was normalized
C19_Witness ==
    /\ pc = "send"
    /\ entry.Operation = "u"
    /\ <<"_id">> \in DOMAIN entry.Data
    /\ entry.Data[<<"_id">>] # entry.DocID
    /\ entry.DocID = oplog[iter.pos].Update.ID
    /\ pending.OplogTimestamp = oplog[iter.pos].Timestamp

\* the Tail loop reads wasStopped while the watcher's write to it is not
\* ordered before the read: the watcher has received on stop and either is
\* about to write or has written and its send on childStopC was not received
UnorderedRead == retBy # "stop" /\ gpc \in {"set", "send"}

\* C18: when tailOnce returned on the message from childStopC the Tail loop's
\* read of wasStopped sees true and Tail returns without sleeping; and no read
\* of wasStopped by the Tail loop is concurrent with the watcher's write.
C18_WasStoppedHandOff ==
    [][(pc = "check" /\ pc' # pc) =>
         /\ (retBy = "stop" => pc' = "returned")
         /\ ~UnorderedRead]_vars

\* C20: when Tail has returned, the stop-watcher goroutine has finished: its
\* send on childStopC was received.
C20_WatcherFinished == pc = "returned" => gpc = "done"

\* tailOnce is not running: Tail is between two invocations or has returned
BetweenInvocations == pc \in {"check", "sleep", "returned"}

\* C21: across the reconnect cycles of Tail at most one session copy and at
\* most one oplog cursor opened by tailOnce are open at any time, and when an
\* invocation of tailOnce has returned (by error or by stop) the session copy
\* and the cursors it opened are closed.
C21_OneSessionOneCursor ==
    /\ openSessions <= 1
    /\ openCursors <= 1
    /\ BetweenInvocations => (openSessions = 0 /\ openCursors = 0)

====
